---- MODULE Spec2Model ----
(***************************************************************************)
(* SmartBits: a binary-clock watch face (src/src/SmartBits.c).             *)
(*                                                                         *)
(* The program keeps two process-wide values (the last battery snapshot    *)
(* and the last connection status), owns three layers that the toolkit     *)
(* repaints after layer_mark_dirty, and paints LEDs (filled circles) on    *)
(* the display.  The display is modelled by the colour of the circle at    *)
(* each LED centre; the toolkit by one pending-dirty flag per layer.       *)
(***************************************************************************)
EXTENDS Integers, Sequences, FiniteSets, TLC

VARIABLES
    phase,                \* "start" before init(), "loop" in app_event_loop, "exited" after deinit()
    s_battery_current,    \* last battery snapshot
    s_connected_current,  \* last connection status
    dirty,                \* per layer: marked dirty and not yet repainted
    screen,               \* colour of the circle at each LED centre
    t,                    \* the struct tm read by the last time_update
    is_24h_style          \* the display mode read by the last time_update

vars == <<phase, s_battery_current, s_connected_current, dirty, screen, t, is_24h_style>>

----------------------------------------------------------------------------
(* Global constants *)

kSpace == 4
kDotRadius == 12

kMonthColumn == 0
kDayOfMonthColumn == 1
kHourColumn == 2
kMinuteColumn == 3
kSecondColumn == 4

kWeekDayLine == 5

GColorWhite == "GColorWhite"
GColorBlack == "GColorBlack"

Layers == {"s_time_layer", "s_battery_layer", "s_connected_layer"}

Columns == {kMonthColumn, kDayOfMonthColumn, kHourColumn, kMinuteColumn, kSecondColumn}
Rows == 0..kWeekDayLine

----------------------------------------------------------------------------
(* Bounds of the model *)

\* Number of evenly spaced charge percentages a battery notification can carry.
NumChargeLevels == 3

\* The event loop's clock reads tm_sec in 0..MaxTick around each base time.
MaxTick == 2

\* Number of base times; the encoder is applied to every time that differs
\* from a base time in at most one field, that field taking all its values.
NumBaseTimes == 2

----------------------------------------------------------------------------
(* Inputs *)

ChargeLevels == {(100 * k) \div (NumChargeLevels - 1) : k \in 0..(NumChargeLevels - 1)}

BatteryChargeState ==
    [charge_percent : ChargeLevels, is_charging : BOOLEAN, is_plugged : BOOLEAN]

\* Ranges of the struct tm fields read by time_update.
TmRange ==
    [tm_sec |-> 0..59, tm_min |-> 0..59, tm_hour |-> 0..23,
     tm_mday |-> 1..31, tm_mon |-> 0..11, tm_wday |-> 0..6]

TmFields == DOMAIN TmRange

\* Base time 1 is 00:00:00 on January 1, a Sunday; base time 2 is 23:59:59 on
\* December 31, a Saturday; the following ones step down from there.
BaseTime(k) ==
    [tm_sec  |-> (59 * (k - 1)) % 60,
     tm_min  |-> (59 * (k - 1)) % 60,
     tm_hour |-> (23 * (k - 1)) % 24,
     tm_mday |-> 1 + ((30 * (k - 1)) % 31),
     tm_mon  |-> (11 * (k - 1)) % 12,
     tm_wday |-> (6 * (k - 1)) % 7]

BaseTimes == { BaseTime(k) : k \in 1..NumBaseTimes }

EncodeTimes ==
    UNION { { [b EXCEPT ![f] = v] : v \in TmRange[f] } : b \in BaseTimes, f \in TmFields }

LoopTimes == { [b EXCEPT !.tm_sec = s] : b \in BaseTimes, s \in 0..MaxTick } \cup BaseTimes

\* Value of t before time_update has run.
NoTime ==
    [tm_sec |-> -1, tm_min |-> -1, tm_hour |-> -1, tm_mday |-> -1, tm_mon |-> -1, tm_wday |-> -1]

----------------------------------------------------------------------------
(* C operators *)

\* a & b on non-negative ints
RECURSIVE BitAnd(_, _)
BitAnd(a, b) ==
    IF a = 0 \/ b = 0 THEN 0
    ELSE (a % 2) * (b % 2) + 2 * BitAnd(a \div 2, b \div 2)

\* conversion of an int to bool
ToBool(v) == v # 0

\* conversion of a bool to int
ToInt(b) == IF b THEN 1 ELSE 0

----------------------------------------------------------------------------
(* Layout and drawing *)

\* Variant: the vertical offset is the whole spacing instead of half of it.
getCenter_FullSpace(col, row) ==
    << kDotRadius * (1 + 2 * col) + kSpace * col + kSpace,
       kDotRadius * (1 + 2 * row) + kSpace * row + kSpace >>

getCenter(col, row) ==
    << kDotRadius * (1 + 2 * col) + kSpace * col + kSpace,
       kDotRadius * (1 + 2 * row) + kSpace * row + kSpace \div 2 >>

Centers == { getCenter(col, row) : col \in Columns, row \in Rows }

\* toggle_led on a display s
toggle_led(s, col, row, on) ==
    [s EXCEPT ![getCenter(col, row)] = IF on THEN GColorWhite ELSE GColorBlack]

\* a sequence of toggle_led calls <<col, row, on>>, in order
RECURSIVE Draw(_, _)
Draw(s, calls) ==
    IF calls = <<>> THEN s
    ELSE Draw(toggle_led(s, Head(calls)[1], Head(calls)[2], Head(calls)[3]), Tail(calls))

\* the window's background before any layer has painted
Blank == [p \in Centers |-> GColorBlack]

----------------------------------------------------------------------------
(* Time encoder *)

\* Variant: midnight and noon are not shown as 12 in 12-hour mode.
hour_NoTwelve(tm, style) ==
    IF style THEN tm.tm_hour ELSE tm.tm_hour % 12

hour(tm, style) ==
    LET h == IF style THEN tm.tm_hour ELSE tm.tm_hour % 12
    IN  IF ~style /\ 0 = h THEN 12 ELSE h

pm(tm) == ToBool(tm.tm_hour \div 12)

month(tm) == tm.tm_mon + 1

\* Variant: Sunday stays 0.
week_day_Raw(tm) == tm.tm_wday

week_day(tm) == IF 0 # tm.tm_wday THEN tm.tm_wday ELSE 7

\* The toggle_led calls of time_update, column by column, in order.
\* Variant: row 3 of the second column tests mask 4 again.
SecondLeds_Mask(tm) ==
    << <<kSecondColumn, 0, ToBool(BitAnd(tm.tm_sec, 1))>>,
       <<kSecondColumn, 1, ToBool(BitAnd(tm.tm_sec, 2))>>,
       <<kSecondColumn, 2, ToBool(BitAnd(tm.tm_sec, 4))>>,
       <<kSecondColumn, 3, ToBool(BitAnd(tm.tm_sec, 4))>>,
       <<kSecondColumn, 4, ToBool(BitAnd(tm.tm_sec, 16))>>,
       <<kSecondColumn, 5, ToBool(BitAnd(tm.tm_sec, 32))>> >>

SecondLeds(tm) ==
    << <<kSecondColumn, 0, ToBool(BitAnd(tm.tm_sec, 1))>>,
       <<kSecondColumn, 1, ToBool(BitAnd(tm.tm_sec, 2))>>,
       <<kSecondColumn, 2, ToBool(BitAnd(tm.tm_sec, 4))>>,
       <<kSecondColumn, 3, ToBool(BitAnd(tm.tm_sec, 8))>>,
       <<kSecondColumn, 4, ToBool(BitAnd(tm.tm_sec, 16))>>,
       <<kSecondColumn, 5, ToBool(BitAnd(tm.tm_sec, 32))>> >>

\* Variant: row 2 of the minute column tests mask 2 again.
MinuteLeds_Mask(tm) ==
    << <<kMinuteColumn, 0, ToBool(BitAnd(tm.tm_min, 1))>>,
       <<kMinuteColumn, 1, ToBool(BitAnd(tm.tm_min, 2))>>,
       <<kMinuteColumn, 2, ToBool(BitAnd(tm.tm_min, 2))>>,
       <<kMinuteColumn, 3, ToBool(BitAnd(tm.tm_min, 8))>>,
       <<kMinuteColumn, 4, ToBool(BitAnd(tm.tm_min, 16))>>,
       <<kMinuteColumn, 5, ToBool(BitAnd(tm.tm_min, 32))>> >>

MinuteLeds(tm) ==
    << <<kMinuteColumn, 0, ToBool(BitAnd(tm.tm_min, 1))>>,
       <<kMinuteColumn, 1, ToBool(BitAnd(tm.tm_min, 2))>>,
       <<kMinuteColumn, 2, ToBool(BitAnd(tm.tm_min, 4))>>,
       <<kMinuteColumn, 3, ToBool(BitAnd(tm.tm_min, 8))>>,
       <<kMinuteColumn, 4, ToBool(BitAnd(tm.tm_min, 16))>>,
       <<kMinuteColumn, 5, ToBool(BitAnd(tm.tm_min, 32))>> >>

HourLeds(tm, style) ==
    << <<kHourColumn, 0, ToBool(BitAnd(hour(tm, style), 1))>>,
       <<kHourColumn, 1, ToBool(BitAnd(hour(tm, style), 2))>>,
       <<kHourColumn, 2, ToBool(BitAnd(hour(tm, style), 4))>>,
       <<kHourColumn, 3, ToBool(BitAnd(hour(tm, style), 8))>>,
       <<kHourColumn, 4, ToBool(IF style THEN BitAnd(hour(tm, style), 16) ELSE ToInt(pm(tm)))>>,
       <<kHourColumn, kWeekDayLine, ToBool(BitAnd(week_day(tm), 1))>> >>

\* Variant: the weekday row of the day-of-month column tests the lowest weekday bit.
DayOfMonthLeds_WeekBit(tm) ==
    << <<kDayOfMonthColumn, 0, ToBool(BitAnd(tm.tm_mday, 1))>>,
       <<kDayOfMonthColumn, 1, ToBool(BitAnd(tm.tm_mday, 2))>>,
       <<kDayOfMonthColumn, 2, ToBool(BitAnd(tm.tm_mday, 4))>>,
       <<kDayOfMonthColumn, 3, ToBool(BitAnd(tm.tm_mday, 8))>>,
       <<kDayOfMonthColumn, 4, ToBool(BitAnd(tm.tm_mday, 16))>>,
       <<kDayOfMonthColumn, kWeekDayLine, ToBool(BitAnd(week_day(tm), 1))>> >>

DayOfMonthLeds(tm) ==
    << <<kDayOfMonthColumn, 0, ToBool(BitAnd(tm.tm_mday, 1))>>,
       <<kDayOfMonthColumn, 1, ToBool(BitAnd(tm.tm_mday, 2))>>,
       <<kDayOfMonthColumn, 2, ToBool(BitAnd(tm.tm_mday, 4))>>,
       <<kDayOfMonthColumn, 3, ToBool(BitAnd(tm.tm_mday, 8))>>,
       <<kDayOfMonthColumn, 4, ToBool(BitAnd(tm.tm_mday, 16))>>,
       <<kDayOfMonthColumn, kWeekDayLine, ToBool(BitAnd(week_day(tm), 2))>> >>

\* Variant: the month column also draws its row 4, like the other columns.
MonthLeds_Row4(tm) ==
    << <<kMonthColumn, 0, ToBool(BitAnd(month(tm), 1))>>,
       <<kMonthColumn, 1, ToBool(BitAnd(month(tm), 2))>>,
       <<kMonthColumn, 2, ToBool(BitAnd(month(tm), 4))>>,
       <<kMonthColumn, 3, ToBool(BitAnd(month(tm), 8))>>,
       <<kMonthColumn, 4, ToBool(BitAnd(month(tm), 16))>>,
       <<kMonthColumn, kWeekDayLine, ToBool(BitAnd(week_day(tm), 4))>> >>

MonthLeds(tm) ==
    << <<kMonthColumn, 0, ToBool(BitAnd(month(tm), 1))>>,
       <<kMonthColumn, 1, ToBool(BitAnd(month(tm), 2))>>,
       <<kMonthColumn, 2, ToBool(BitAnd(month(tm), 4))>>,
       <<kMonthColumn, 3, ToBool(BitAnd(month(tm), 8))>>,
       <<kMonthColumn, kWeekDayLine, ToBool(BitAnd(week_day(tm), 4))>> >>

TimeLeds(tm, style) ==
    SecondLeds(tm) \o MinuteLeds(tm) \o HourLeds(tm, style) \o DayOfMonthLeds(tm) \o MonthLeds(tm)

\* Variant: column and row of the connection LED are swapped.
ConnectedLeds_Swapped(connected) == << <<4, 0, connected>> >>

\* The toggle_led call of connected_update.
ConnectedLeds(connected) == << <<0, 4, connected>> >>

\* Variant: battery_update shows the charging flag on an LED.
BatteryLeds_Charging(charge_state) == << <<kMonthColumn, 4, charge_state.is_charging>> >>

\* battery_update has an empty body.
BatteryLeds(charge_state) == << >>

----------------------------------------------------------------------------
(* Operations *)

Init ==
    /\ phase = "start"
    /\ s_battery_current = [charge_percent |-> 0, is_charging |-> FALSE, is_plugged |-> FALSE]
    /\ s_connected_current = FALSE
    /\ dirty = [l \in Layers |-> FALSE]
    /\ screen = Blank
    /\ t = NoTime
    /\ is_24h_style = FALSE

\* init(): the three handlers are called once with the peeked values.
init(peek_battery, peek_connected) ==
    /\ phase = "start"
    /\ phase' = "loop"
    /\ s_battery_current' = peek_battery
    /\ s_connected_current' = peek_connected
    /\ dirty' = [l \in Layers |-> TRUE]
    /\ UNCHANGED <<screen, t, is_24h_style>>

handle_second_tick ==
    /\ phase = "loop"
    /\ dirty' = [dirty EXCEPT !["s_time_layer"] = TRUE]
    /\ UNCHANGED <<phase, s_battery_current, s_connected_current, screen, t, is_24h_style>>

handle_battery(charge_state) ==
    /\ phase = "loop"
    /\ s_battery_current' = charge_state
    /\ dirty' = [dirty EXCEPT !["s_battery_layer"] = TRUE]
    /\ UNCHANGED <<phase, s_connected_current, screen, t, is_24h_style>>

\* Variant: the connection layer is not marked dirty.
handle_connected_NoMark(connected) ==
    /\ phase = "loop"
    /\ s_connected_current' = connected
    /\ UNCHANGED <<phase, s_battery_current, dirty, screen, t, is_24h_style>>

handle_connected(connected) ==
    /\ phase = "loop"
    /\ s_connected_current' = connected
    /\ dirty' = [dirty EXCEPT !["s_connected_layer"] = TRUE]
    /\ UNCHANGED <<phase, s_battery_current, screen, t, is_24h_style>>

\* The toolkit repaints the time layer: now is the clock, style the display mode.
time_update(now, style) ==
    /\ phase = "loop"
    /\ dirty["s_time_layer"]
    /\ t' = now
    /\ is_24h_style' = style
    /\ screen' = Draw(screen, TimeLeds(now, style))
    /\ dirty' = [dirty EXCEPT !["s_time_layer"] = FALSE]
    /\ UNCHANGED <<phase, s_battery_current, s_connected_current>>

battery_update ==
    /\ phase = "loop"
    /\ dirty["s_battery_layer"]
    /\ screen' = Draw(screen, BatteryLeds(s_battery_current))
    /\ dirty' = [dirty EXCEPT !["s_battery_layer"] = FALSE]
    /\ UNCHANGED <<phase, s_battery_current, s_connected_current, t, is_24h_style>>

connected_update ==
    /\ phase = "loop"
    /\ dirty["s_connected_layer"]
    /\ screen' = Draw(screen, ConnectedLeds(s_connected_current))
    /\ dirty' = [dirty EXCEPT !["s_connected_layer"] = FALSE]
    /\ UNCHANGED <<phase, s_battery_current, s_connected_current, t, is_24h_style>>

\* app_event_loop returns and deinit() destroys the layers: nothing is repainted any more.
deinit ==
    /\ phase = "loop"
    /\ phase' = "exited"
    /\ dirty' = [l \in Layers |-> FALSE]
    /\ UNCHANGED <<s_battery_current, s_connected_current, screen, t, is_24h_style>>

----------------------------------------------------------------------------
(* Specifications *)

Start == \E b \in BatteryChargeState, c \in BOOLEAN : init(b, c)
Tick == handle_second_tick
BatteryEvent == \E b \in BatteryChargeState : handle_battery(b)
ConnectionEvent == \E c \in BOOLEAN : handle_connected(c)
PaintTime ==
    /\ dirty["s_time_layer"]
    /\ \E now \in LoopTimes, style \in BOOLEAN : time_update(now, style)
PaintBattery == battery_update
PaintConnected == connected_update
Exit == deinit

\* The application: events and repaints in any order, until it exits.
Next ==
    \/ Start
    \/ Tick
    \/ BatteryEvent
    \/ ConnectionEvent
    \/ PaintTime
    \/ PaintBattery
    \/ PaintConnected
    \/ Exit

Spec == Init /\ [][Next]_vars

\* The application while it keeps running, with the clock at a base time
\* and the battery empty and unplugged or full and charging; a layer marked
\* dirty is repainted before the next idle point.
LiveBatteryStates ==
    { [charge_percent |-> c, is_charging |-> c # 0, is_plugged |-> c # 0] : c \in {0, 100} }

LiveStart == \E b \in LiveBatteryStates, c \in BOOLEAN : init(b, c)
LiveBatteryEvent == \E b \in LiveBatteryStates : handle_battery(b)
LivePaintTime ==
    /\ dirty["s_time_layer"]
    /\ \E now \in BaseTimes, style \in BOOLEAN : time_update(now, style)

LiveRunning ==
    \/ LiveStart
    \/ Tick
    \/ LiveBatteryEvent
    \/ ConnectionEvent
    \/ LivePaintTime
    \/ PaintBattery
    \/ PaintConnected

LiveSpec ==
    /\ Init
    /\ [][LiveRunning]_vars
    /\ WF_vars(LiveStart)
    /\ WF_vars(LivePaintTime)
    /\ WF_vars(PaintBattery)
    /\ WF_vars(PaintConnected)

\* The time encoder applied once to each input, on a display where the
\* connection layer has already painted.
InitEncode ==
    /\ phase = "loop"
    /\ s_battery_current = [charge_percent |-> 0, is_charging |-> FALSE, is_plugged |-> FALSE]
    /\ s_connected_current \in BOOLEAN
    /\ dirty = [l \in Layers |-> l = "s_time_layer"]
    /\ screen = Draw(Blank, ConnectedLeds(s_connected_current))
    /\ t = NoTime
    /\ is_24h_style = FALSE

Encode ==
    /\ dirty["s_time_layer"]
    /\ \E now \in EncodeTimes, style \in BOOLEAN : time_update(now, style)

SpecEncode == InitEncode /\ [][Encode]_vars

----------------------------------------------------------------------------
(* Reading the display *)

Led(col, row) == screen[getCenter(col, row)] = GColorWhite

\* The lit rows of a column read as a binary number, row 0 the lowest bit.
RECURSIVE ReadRows(_, _)
ReadRows(col, rows) ==
    IF rows = {} THEN 0
    ELSE LET r == CHOOSE x \in rows : TRUE
         IN  ToInt(Led(col, r)) * (2 ^ r) + ReadRows(col, rows \ {r})

\* time_update has painted the display at least once.
Painted == t # NoTime

\* The step is a repaint of the given layer.
Repaints(layer) == phase' = "loop" /\ dirty[layer] /\ ~dirty'[layer]

\* The step is a battery notification that changes the state.
BatteryNotified ==
    /\ phase = "loop"
    /\ \/ s_battery_current' # s_battery_current
       \/ ~dirty["s_battery_layer"] /\ dirty'["s_battery_layer"]

\* The step is a connection notification that changes the state.
ConnectionNotified ==
    /\ phase = "loop"
    /\ \/ s_connected_current' # s_connected_current
       \/ ~dirty["s_connected_layer"] /\ dirty'["s_connected_layer"]

----------------------------------------------------------------------------
(* Properties *)

\* C1 (as stated): after time_update, rows 0..4 of each column, read as a
\* binary number, give back sec, min, the display hour, mday and month.
C1_RoundTripRows0to4 ==
    Painted =>
        /\ ReadRows(kSecondColumn, 0..4) = t.tm_sec
        /\ ReadRows(kMinuteColumn, 0..4) = t.tm_min
        /\ ReadRows(kHourColumn, 0..4) = hour(t, is_24h_style)
        /\ ReadRows(kDayOfMonthColumn, 0..4) = t.tm_mday
        /\ ReadRows(kMonthColumn, 0..4) = month(t)

\* C1 (amended): after time_update, sec and min are given back by rows 0..5
\* of their columns, mday by rows 0..4, month by rows 0..3, and the display
\* hour by rows 0..4 of the hour column in 24-hour mode and by rows 0..3 in
\* 12-hour mode, where row 4 is the pm flag.
C1_RoundTrip ==
    Painted =>
        /\ ReadRows(kSecondColumn, 0..5) = t.tm_sec
        /\ ReadRows(kMinuteColumn, 0..5) = t.tm_min
        /\ is_24h_style => ReadRows(kHourColumn, 0..4) = hour(t, is_24h_style)
        /\ ~is_24h_style => /\ ReadRows(kHourColumn, 0..3) = hour(t, is_24h_style)
                            /\ Led(kHourColumn, 4) = pm(t)
        /\ ReadRows(kDayOfMonthColumn, 0..4) = t.tm_mday
        /\ ReadRows(kMonthColumn, 0..3) = month(t)

C1_Witness ==
    /\ Painted
    /\ ~is_24h_style
    /\ t.tm_sec = 59
    /\ t.tm_hour = 23
    /\ Led(kSecondColumn, 5)
    /\ Led(kHourColumn, 4)
    /\ Led(kMonthColumn, 4)

\* 23:59:59 on December 31, a Saturday.
YearEnd ==
    [tm_sec |-> 59, tm_min |-> 59, tm_hour |-> 23, tm_mday |-> 31, tm_mon |-> 11, tm_wday |-> 6]

AtYearEnd == Painted /\ t = YearEnd /\ is_24h_style

\* The part of the year-end display that does not depend on the seconds and minutes.
YearEndDate ==
    /\ Led(kHourColumn, 0) /\ Led(kHourColumn, 1) /\ Led(kHourColumn, 2)
    /\ ~Led(kHourColumn, 3)
    /\ Led(kHourColumn, 4)
    /\ ~Led(kHourColumn, 5)
    /\ \A r \in 0..4 : Led(kDayOfMonthColumn, r)
    /\ Led(kDayOfMonthColumn, 5)
    /\ ~Led(kMonthColumn, 0) /\ ~Led(kMonthColumn, 1)
    /\ Led(kMonthColumn, 2) /\ Led(kMonthColumn, 3)
    /\ Led(kMonthColumn, 5)

\* C2 (as stated): at 23:59:59 on Saturday December 31 in 24-hour mode the
\* second and minute columns have all six rows on, and the hour,
\* day-of-month and month columns show 23, 31, 12 and the weekday bits of 6.
C2_YearEndAllOn ==
    AtYearEnd =>
        /\ \A r \in 0..5 : Led(kSecondColumn, r)
        /\ \A r \in 0..5 : Led(kMinuteColumn, r)
        /\ YearEndDate

\* C2 (amended): at that time the second and minute columns have rows
\* 0, 1, 3, 4, 5 on and row 2 off (59 = 111011 in binary); the other three
\* columns are as stated.
C2_YearEnd ==
    AtYearEnd =>
        /\ \A r \in {0, 1, 3, 4, 5} : Led(kSecondColumn, r)
        /\ ~Led(kSecondColumn, 2)
        /\ \A r \in {0, 1, 3, 4, 5} : Led(kMinuteColumn, r)
        /\ ~Led(kMinuteColumn, 2)
        /\ YearEndDate

C2_Witness == AtYearEnd /\ ReadRows(kMinuteColumn, 0..5) = 59

\* C3: a connection notification changes no LED, and the repaint of the
\* connection layer that shows a new status TRUE over a dark LED turns on
\* the LED at (column 0, row 4) and changes no other LED.
C3_ConnectToggle ==
    [][ /\ ConnectionNotified => screen' = screen
        /\ (Repaints("s_connected_layer") /\ s_connected_current /\ ~Led(0, 4)) =>
              /\ screen'[getCenter(0, 4)] = GColorWhite
              /\ \A p \in Centers \ {getCenter(0, 4)} : screen'[p] = screen[p]
              /\ Cardinality({p \in Centers : screen'[p] # screen[p]}) = 1 ]_vars

C3_Witness ==
    /\ phase = "loop"
    /\ s_connected_current
    /\ ~dirty["s_connected_layer"]
    /\ Led(0, 4)
    /\ Cardinality({p \in Centers : screen[p] = GColorWhite}) = 1

\* C4: the display hour is in 1..12 in 12-hour mode (hour % 12 with 0 shown
\* as 12) and is the hour itself in 24-hour mode; pm is hour >= 12.
C4_DisplayHour ==
    Painted =>
        /\ ~is_24h_style =>
              /\ hour(t, is_24h_style) \in 1..12
              /\ hour(t, is_24h_style) = (IF t.tm_hour % 12 = 0 THEN 12 ELSE t.tm_hour % 12)
              /\ ReadRows(kHourColumn, 0..3) \in 1..12
        /\ is_24h_style =>
              /\ hour(t, is_24h_style) = t.tm_hour
              /\ ReadRows(kHourColumn, 0..4) = t.tm_hour
        /\ pm(t) = (t.tm_hour >= 12)

C4_Witness ==
    /\ Painted
    /\ ~is_24h_style
    /\ t.tm_hour = 0
    /\ ReadRows(kHourColumn, 0..3) = 12
    /\ ~Led(kHourColumn, 4)

\* C5: week_day is 7 exactly when tm_wday is 0 and is tm_wday otherwise, so
\* it is always in 1..7.
C5_WeekDay ==
    Painted =>
        /\ (week_day(t) = 7) <=> (t.tm_wday = 0)
        /\ t.tm_wday # 0 => week_day(t) = t.tm_wday
        /\ week_day(t) \in 1..7

C5_Witness ==
    /\ Painted
    /\ t.tm_wday = 0
    /\ Led(kHourColumn, kWeekDayLine)
    /\ Led(kDayOfMonthColumn, kWeekDayLine)
    /\ Led(kMonthColumn, kWeekDayLine)

\* C6: the row-5 LEDs of the hour, day-of-month and month columns, taken as
\* bits 0, 1 and 2, form the number week_day (1..7).
C6_WeekDayBits ==
    Painted =>
        /\ ToInt(Led(kHourColumn, kWeekDayLine))
             + 2 * ToInt(Led(kDayOfMonthColumn, kWeekDayLine))
             + 4 * ToInt(Led(kMonthColumn, kWeekDayLine))
           = (IF t.tm_wday = 0 THEN 7 ELSE t.tm_wday)

C6_Witness ==
    /\ Painted
    /\ t.tm_wday = 5
    /\ Led(kHourColumn, kWeekDayLine)
    /\ ~Led(kDayOfMonthColumn, kWeekDayLine)
    /\ Led(kMonthColumn, kWeekDayLine)

\* C7: getCenter(col, row) is <<12*(1+2*col) + 4*col + 4, 12*(1+2*row) + 4*row + 2>>:
\* x grows strictly with col and does not depend on row, y grows strictly
\* with row and does not depend on col, and getCenter(0, 0) = <<16, 14>>.
C7_GetCenter ==
    /\ kDotRadius = 12 /\ kSpace = 4
    /\ \A col \in 0..4, row \in 0..5 :
          /\ getCenter(col, row)[1] = 12 * (1 + 2 * col) + 4 * col + 4
          /\ getCenter(col, row)[2] = 12 * (1 + 2 * row) + 4 * row + 2
          /\ \A c2 \in 0..4, r2 \in 0..5 :
                /\ c2 > col => getCenter(c2, r2)[1] > getCenter(col, row)[1]
                /\ r2 > row => getCenter(c2, r2)[2] > getCenter(col, row)[2]
                /\ getCenter(col, r2)[1] = getCenter(col, row)[1]
                /\ getCenter(c2, row)[2] = getCenter(col, row)[2]
    /\ getCenter(0, 0) = <<16, 14>>
    /\ DOMAIN screen = { <<16 + 28 * col, 14 + 28 * row>> : col \in 0..4, row \in 0..5 }

C7_Witness ==
    /\ Painted
    /\ <<16, 14>> \in DOMAIN screen /\ screen[<<16, 14>>] = GColorWhite
    /\ <<128, 154>> \in DOMAIN screen /\ screen[<<128, 154>>] = GColorWhite

\* C8: a battery notification stores the snapshot it carries and changes no
\* LED and not the connection status; the repaint of the battery layer that
\* follows changes no LED, no snapshot and no connection status.
C8_BatteryFrame ==
    [][ /\ BatteryNotified =>
              /\ s_battery_current' \in BatteryChargeState
              /\ dirty'["s_battery_layer"]
              /\ screen' = screen
              /\ s_connected_current' = s_connected_current
        /\ (\A b \in BatteryChargeState : handle_battery(b) => s_battery_current' = b)
        /\ Repaints("s_battery_layer") =>
              /\ screen' = screen
              /\ s_battery_current' = s_battery_current
              /\ s_connected_current' = s_connected_current ]_vars

C8_Witness ==
    /\ phase = "loop"
    /\ ~dirty["s_battery_layer"]
    /\ s_battery_current = [charge_percent |-> 100, is_charging |-> TRUE, is_plugged |-> TRUE]
    /\ Painted
    /\ ~Led(0, 4)
    /\ ~s_connected_current

\* C9: while the application runs, the LED at (column 0, row 4) shows the
\* last connection status whenever the connection layer has no pending
\* dirty mark, and every pending mark leads to a state where the mark is
\* gone and the LED shows the status last notified.
C9_ConnectionShown ==
    /\ []((phase = "loop" /\ ~dirty["s_connected_layer"]) => (Led(0, 4) <=> s_connected_current))
    /\ (dirty["s_connected_layer"] ~>
            (~dirty["s_connected_layer"] /\ (Led(0, 4) <=> s_connected_current)))

C9_Witness ==
    /\ phase = "loop"
    /\ ~dirty["s_connected_layer"]
    /\ dirty["s_time_layer"]
    /\ Painted
    /\ Led(0, 4)
    /\ s_connected_current

\* The cells a sequence of toggle_led calls draws.
CellsOf(calls) == { <<calls[i][1], calls[i][2]>> : i \in 1..Len(calls) }

\* C10: time_update draws exactly 29 cells, rows 0..5 of the second,
\* minute, hour and day-of-month columns and rows 0..3 and 5 of the month
\* column; it does not draw the cell of connected_update, and it leaves the
\* LED at (column 0, row 4) as it was.
C10_TimeCells ==
    [][ Repaints("s_time_layer") =>
          LET calls == TimeLeds(t', is_24h_style')
              cells == CellsOf(calls)
          IN  /\ Len(calls) = 29
              /\ cells = ({kSecondColumn, kMinuteColumn, kHourColumn, kDayOfMonthColumn} \X (0..5))
                           \cup ({kMonthColumn} \X {0, 1, 2, 3, 5})
              /\ <<0, 4>> \notin cells
              /\ cells \cap CellsOf(ConnectedLeds(s_connected_current)) = {}
              /\ screen'[getCenter(0, 4)] = screen[getCenter(0, 4)] ]_vars

C10_Witness ==
    /\ Painted
    /\ s_connected_current
    /\ Led(kMonthColumn, 4)
    /\ t.tm_mon = 11
    /\ ~is_24h_style
    /\ t.tm_hour = 11

====
